---------------------------- MODULE Spec2Model ----------------------------
(***************************************************************************)
(* Model of adsb_checker.py: the ADSBChecker class (get_recent_flights,    *)
(* display_flights, save_data, run_continuous) and main().                 *)
(*                                                                         *)
(* Representation of Python values:                                        *)
(*   - a str is a sequence of one-character strings, "" is << >>;          *)
(*   - a JSON value that may be null is an optional: Null == << >> and     *)
(*     Some(v) == << v >>;                                                 *)
(*   - a float is an integer count of quarters (q stands for q/4), so      *)
(*     every value is exact in binary floating point and the rounding of   *)
(*     the format specifications .0f and .1f can be computed exactly.      *)
(***************************************************************************)
EXTENDS Integers, Sequences, FiniteSets, TLC

VARIABLES
    argv,        \* sys.argv[1:]
    pc,          \* position of the single thread of control
    exc,         \* the exception that ended the process, "none" otherwise
    lookback,    \* main: lookback  (ADSBChecker.lookback_minutes)
    continuous,  \* main: continuous
    interval,    \* main: interval  (run_continuous: interval_seconds)
    save_data,   \* main: save_data (the --save flag)
    iteration,   \* run_continuous: iteration
    response,    \* the reply to the HTTP GET in flight or last received
    flights,     \* the list returned by the last get_recent_flights
    out,         \* standard output, one entry per call of print
    requests,    \* number of session.get calls made so far
    files,       \* one entry per save_data call: what json.dump wrote
    interrupted  \* whether KeyboardInterrupt has been raised

vars == <<argv, pc, exc, lookback, continuous, interval, save_data,
          iteration, response, flights, out, requests, files, interrupted>>

---------------------------------------------------------------------------
(* Bounds of the model *)

\* longest command line
MaxArgs == 2
\* longest `states` array enumerated entry by entry
MaxStates == 2
\* longest generated `states` array (must exceed the 50-row display limit)
MaxBulk == 52
\* number of cycles run_continuous is followed for
MaxCycles == 3

---------------------------------------------------------------------------
(* Python values *)

Null == << >>
Some(v) == << v >>

Max(a, b) == IF a >= b THEN a ELSE b
Min(a, b) == IF a <= b THEN a ELSE b
Abs(n) == IF n < 0 THEN -n ELSE n

DigitChars == <<"0", "1", "2", "3", "4", "5", "6", "7", "8", "9">>

\* str(n) for a non-negative int
RECURSIVE IntToStr(_)
IntToStr(n) ==
    IF n < 10 THEN <<DigitChars[n + 1]>>
    ELSE IntToStr(n \div 10) \o <<DigitChars[(n % 10) + 1]>>

\* num/den rounded to the nearest integer, ties to even (num >= 0, den > 0)
RoundHalfEven(num, den) ==
    LET q == num \div den
        r == num % den
    IN  IF 2 * r < den THEN q
        ELSE IF 2 * r > den THEN q + 1
        ELSE IF q % 2 = 0 THEN q ELSE q + 1

\* format(x, ".0f") for the float x = q/4
FormatF0(q) ==
    (IF q < 0 THEN <<"-">> ELSE << >>) \o IntToStr(RoundHalfEven(Abs(q), 4))

\* format(x, ".1f") for the float x = q/4
FormatF1(q) ==
    LET tenths == RoundHalfEven(Abs(q) * 10, 4)
    IN  (IF q < 0 THEN <<"-">> ELSE << >>)
        \o IntToStr(tenths \div 10) \o <<".">> \o <<DigitChars[(tenths % 10) + 1]>>

\* format(s, "<w"): left-aligned in a field of width w, never truncated
LJust(s, w) ==
    s \o [i \in 1..Max(0, w - Len(s)) |-> " "]

IsSpace(c) == c \in {" ", "\t", "\n", "\r", "\f"}

RECURSIVE lstrip(_)
lstrip(s) ==
    IF s = << >> THEN s
    ELSE IF IsSpace(Head(s)) THEN lstrip(Tail(s)) ELSE s

RECURSIVE rstrip(_)
rstrip(s) ==
    IF s = << >> THEN s
    ELSE IF IsSpace(s[Len(s)]) THEN rstrip(SubSeq(s, 1, Len(s) - 1)) ELSE s

\* str.strip()
strip(s) == rstrip(lstrip(s))

\* bool(v) for an optional str: None and "" are false
TruthyStr(v) == v # Null /\ v[1] # << >>

\* bool(v) for an optional number: None and 0 are false
TruthyNum(v) == v # Null /\ v[1] # 0

Unknown == <<"U", "n", "k", "n", "o", "w", "n">>
NA == <<"N", "/", "A">>

---------------------------------------------------------------------------
(* ADSBChecker.get_recent_flights *)

\* state[k] of a state vector (Python indexes from 0)
Field(state, k) == state[k + 1]

\* a state vector with the positions get_recent_flights reads; positions 4
\* and 8 are never read
RawState(icao24, callsign, country, time, lat, lon, alt, vel, hdg, vrate) ==
    <<icao24, callsign, country, time, Null, lat, lon, alt, Null, vel, hdg, vrate>>

\* datetime.fromtimestamp(t).isoformat(): the text is a function of t and of
\* the host's time zone; it is kept symbolic, tagged as a rendered local time
FromTimestampIso(t) == [local_iso_of |-> t]

\* state[1].strip() if state[1] else 'Unknown'
Callsign(raw) == IF TruthyStr(raw) THEN strip(raw[1]) ELSE Unknown

\* the dict built for one state vector whose state[3] is a number
BuildFlight(state) ==
    [callsign      |-> Callsign(Field(state, 1)),
     icao24        |-> Field(state, 0),
     country       |-> Field(state, 2),
     latitude      |-> Field(state, 5),
     longitude     |-> Field(state, 6),
     altitude      |-> Field(state, 7),
     velocity      |-> Field(state, 9),
     heading       |-> Field(state, 10),
     vertical_rate |-> Field(state, 11),
     timestamp     |-> FromTimestampIso(Field(state, 3)[1])]

\* the for loop over states, from position i with the flights built so far;
\* datetime.fromtimestamp(None) raises TypeError, which nothing catches
RECURSIVE FlightLoop(_, _, _)
FlightLoop(states, i, acc) ==
    IF i > Len(states) THEN [exc |-> "none", flights |-> acc]
    ELSE IF Field(states[i], 0) # Null
         THEN IF Field(states[i], 3) = Null
              THEN [exc |-> "TypeError", flights |-> << >>]
              ELSE FlightLoop(states, i + 1, Append(acc, BuildFlight(states[i])))
         ELSE FlightLoop(states, i + 1, acc)

\* the exceptions of the request without the call of raise_for_status
RequestException_Unchecked(resp) ==
    IF resp.error # "none" THEN resp.error ELSE "none"

\* what session.get and raise_for_status raise for a reply, "none" if nothing:
\* a timeout or connection error is raised by session.get, a 4xx or 5xx
\* status by raise_for_status; all three are requests.RequestException
RequestException(resp) ==
    IF resp.error # "none" THEN resp.error
    ELSE IF resp.status >= 400 /\ resp.status < 600 THEN "HTTPError"
    ELSE "none"

\* data.get('states', []): the default only replaces a missing key
StatesOf(body) == IF body.has_states THEN body.states ELSE Some(<< >>)

\* the outcome of get_recent_flights without its except clause: a
\* RequestException leaves the function
ParseResponse_Propagates(resp) ==
    IF RequestException(resp) # "none"
    THEN [exc |-> RequestException(resp), flights |-> << >>, caught |-> "none"]
    ELSE IF StatesOf(resp.body) = Null
    THEN [exc |-> "TypeError", flights |-> << >>, caught |-> "none"]
    ELSE [exc |-> FlightLoop(StatesOf(resp.body)[1], 1, << >>).exc,
          flights |-> FlightLoop(StatesOf(resp.body)[1], 1, << >>).flights,
          caught |-> "none"]

\* the outcome of the try block once the reply is in: the exception that
\* leaves get_recent_flights ("none" when it returns), the list returned and
\* the RequestException the except clause caught ("none" if none)
ParseResponse(resp) ==
    IF RequestException(resp) # "none"
    THEN [exc |-> "none", flights |-> << >>, caught |-> RequestException(resp)]
    ELSE IF StatesOf(resp.body) = Null
    THEN [exc |-> "TypeError", flights |-> << >>, caught |-> "none"]
    ELSE [exc |-> FlightLoop(StatesOf(resp.body)[1], 1, << >>).exc,
          flights |-> FlightLoop(StatesOf(resp.body)[1], 1, << >>).flights,
          caught |-> "none"]

---------------------------------------------------------------------------
(* ADSBChecker.display_flights *)

\* one call of print: which message was printed and the texts substituted
\* into it, in order
Line(kind, arg) == [kind |-> kind, arg |-> arg]

\* flights[:50] and the two uses of 50 in the summary line
TopN == 50

\* f"{flight['altitude']:.0f}m" if flight['altitude'] else 'N/A'
AltitudeCell(altitude) ==
    IF TruthyNum(altitude) THEN FormatF0(altitude[1]) \o <<"m">> ELSE NA

\* f"{flight['velocity']:.1f}m/s" if flight['velocity'] else 'N/A'
VelocityCell(velocity) ==
    IF TruthyNum(velocity) THEN FormatF1(velocity[1]) \o <<"m", "/", "s">> ELSE NA

\* the heading cell with the truth test used for altitude and velocity
HeadingCell_Truthy(heading) ==
    IF TruthyNum(heading) THEN FormatF0(heading[1]) \o <<"°">> ELSE NA

\* f"{flight['heading']:.0f}°" if flight['heading'] is not None else 'N/A'
HeadingCell(heading) ==
    IF heading # Null THEN FormatF0(heading[1]) \o <<"°">> ELSE NA

\* flight['country'] or 'Unknown'
CountryCell(country) == IF TruthyStr(country) THEN country[1] ELSE Unknown

\* the detail row of one flight: the five cells, each padded to its column
Row(flight) ==
    Line("row", <<LJust(flight.callsign, 10),
                  LJust(CountryCell(flight.country), 20),
                  LJust(AltitudeCell(flight.altitude), 10),
                  LJust(VelocityCell(flight.velocity), 10),
                  LJust(HeadingCell(flight.heading), 10)>>)

\* flights[:50]
Shown(fs) == SubSeq(fs, 1, Min(Len(fs), TopN))

\* the summary line printed from 50 flights on instead of from 51
MoreLines_AtLeast(fs) ==
    IF Len(fs) >= TopN THEN <<Line("more", <<IntToStr(Len(fs) - TopN)>>)>> ELSE << >>

\* the "... and N more aircraft" line, printed when len(flights) > 50
MoreLines(fs) ==
    IF Len(fs) > TopN THEN <<Line("more", <<IntToStr(Len(fs) - TopN)>>)>> ELSE << >>

\* everything display_flights prints for a list of flights, in order
display_flights(fs) ==
    IF fs = << >>
    THEN <<Line("no_data", << >>)>>
    ELSE <<Line("header", << >>), Line("rule", << >>)>>
         \o [i \in 1..Len(Shown(fs)) |-> Row(Shown(fs)[i])]
         \o MoreLines(fs)
         \o <<Line("total", <<IntToStr(Len(fs))>>)>>

---------------------------------------------------------------------------
(* main: the command line *)

\* one argument: opt is the text up to and including the first "=" (the
\* whole argument when it has none), val the text after it
Arg(opt, val) == [opt |-> opt, val |-> val]

IsDigit(c) == \E d \in 1..10 : DigitChars[d] = c

RECURSIVE DigitsValue(_)
DigitsValue(s) ==
    IF s = << >> THEN 0
    ELSE 10 * DigitsValue(SubSeq(s, 1, Len(s) - 1))
         + (CHOOSE d \in 0..9 : DigitChars[d + 1] = s[Len(s)])

\* int(s) for a text without sign, blanks or underscores: its value, or
\* ValueError (ok = FALSE) when s is empty or has a non-digit
PyInt(s) ==
    IF s # << >> /\ \A i \in 1..Len(s) : IsDigit(s[i])
    THEN [ok |-> TRUE, val |-> DigitsValue(s)]
    ELSE [ok |-> FALSE, val |-> 0]

\* main's locals before the loop over sys.argv[1:]
Defaults ==
    [lookback |-> 15, continuous |-> FALSE, interval |-> 60,
     save_data |-> FALSE, result |-> "run"]

\* the loop over sys.argv[1:] from position i: result is "run" when the
\* loop ends, "help" when --help returned, "ValueError" when int() raised
RECURSIVE ParseArgs(_, _, _)
ParseArgs(args, i, st) ==
    IF i > Len(args) THEN st
    ELSE IF args[i].opt = "--lookback="
    THEN IF PyInt(args[i].val).ok
         THEN ParseArgs(args, i + 1, [st EXCEPT !.lookback = PyInt(args[i].val).val])
         ELSE [st EXCEPT !.result = "ValueError"]
    ELSE IF args[i] = Arg("--continuous", << >>)
    THEN ParseArgs(args, i + 1, [st EXCEPT !.continuous = TRUE])
    ELSE IF args[i].opt = "--interval="
    THEN IF PyInt(args[i].val).ok
         THEN ParseArgs(args, i + 1, [st EXCEPT !.interval = PyInt(args[i].val).val])
         ELSE [st EXCEPT !.result = "ValueError"]
    ELSE IF args[i] = Arg("--save", << >>)
    THEN ParseArgs(args, i + 1, [st EXCEPT !.save_data = TRUE])
    ELSE IF args[i] = Arg("--help", << >>)
    THEN [st EXCEPT !.result = "help"]
    ELSE ParseArgs(args, i + 1, st)

---------------------------------------------------------------------------
(* Inputs: command lines and replies of the states/all endpoint *)

\* all sequences over S of length at most n
SeqUpTo(S, n) == UNION {[1..k -> S] : k \in 0..n}

ArgTokens ==
    {Arg("--lookback=", <<"5">>), Arg("--lookback=", <<"x">>),
     Arg("--interval=", <<"2">>), Arg("--continuous", << >>),
     Arg("--save", << >>), Arg("--help", << >>)}

Argvs == SeqUpTo(ArgTokens, MaxArgs)

Icao == <<"a", "1", "b", "2", "c", "3">>
Germany == <<"G", "e", "r", "m", "a", "n", "y">>

\* raw callsigns: null, empty, blank, padded and plain
CallsignInputs ==
    {Null, Some(<< >>), Some(<<" ", " ">>), Some(<<" ", "D", "L", "H", "\t">>),
     Some(<<"B", "A", "W">>)}

\* a reply: error is what session.get raised ("none" when it returned),
\* status the HTTP status, body the decoded JSON object
Reply(error, status, body) == [error |-> error, status |-> status, body |-> body]
Body(has_states, states) == [has_states |-> has_states, states |-> states]
OkReply(states) == Reply("none", 200, Body(TRUE, Some(states)))

\* state vectors with every field present
Plain(callsign) ==
    RawState(Some(Icao), callsign, Some(Germany), Some(1700000000), Some(200),
             Some(40), Some(4000), Some(900), Some(360), Some(-6))

\* the short `states` arrays used when the whole program is followed
CuratedStates ==
    {<< >>,
     <<Plain(Some(<<"B", "A", "W">>))>>,
     <<RawState(Null, Null, Null, Null, Null, Null, Null, Null, Null, Null)>>,
     <<Plain(Some(<<" ", " ">>)),
       RawState(Null, Some(<<"X">>), Null, Some(5), Null, Null, Null, Null, Null, Null),
       RawState(Some(Icao), Null, Null, Some(0), Null, Null, Some(0), Some(0), Some(0), Null)>>,
     <<RawState(Some(Icao), Some(<<"B", "A", "W">>), Null, Null, Null, Null, Null, Null,
                Null, Null)>>}

FailedReplies ==
    {Reply("Timeout", 0, Body(FALSE, Null)),
     Reply("ConnectionError", 0, Body(FALSE, Null)),
     Reply("none", 404, Body(FALSE, Null)),
     Reply("none", 503, Body(TRUE, Some(<<Plain(Null)>>)))}

\* the replies a request of the whole program may get
Responses ==
    FailedReplies
    \cup {Reply("none", 200, Body(FALSE, Null)), Reply("none", 200, Body(TRUE, Null))}
    \cup {OkReply(s) : s \in CuratedStates}

\* state vectors with every combination of null fields
NullCombos ==
    {RawState(id, cs, co, t, la, lo, al, ve, hd, vr) :
        id \in {Null, Some(Icao)}, cs \in CallsignInputs,
        co \in {Null, Some(Germany)}, t \in {Null, Some(1700000000)},
        la \in {Null, Some(200)}, lo \in {Null, Some(40)},
        al \in {Null, Some(4000)}, ve \in {Null, Some(900)},
        hd \in {Null, Some(360)}, vr \in {Null, Some(-6)}}

\* state vectors with a range of altitudes, velocities and headings (in
\* quarters: 0, 0.25, 0.5, 1.5, 2.5, -0.5, 10000 ...)
NumberCombos ==
    {RawState(Some(Icao), Some(<<"B", "A", "W">>), co, Some(0), Null, Null, al, ve, hd, Null) :
        co \in {Null, Some(<< >>), Some(Germany)},
        al \in {Null, Some(0), Some(1), Some(2), Some(6), Some(-2), Some(40000)},
        ve \in {Null, Some(0), Some(1), Some(3), Some(10), Some(1001)},
        hd \in {Null, Some(0), Some(2), Some(1438)}}

CoreStates ==
    {Plain(Some(<<"B", "A", "W">>)), Plain(Some(<<" ", " ">>)),
     RawState(Null, Some(<<"X">>), Null, Some(5), Null, Null, Null, Null, Null, Null),
     RawState(Some(Icao), Null, Null, Some(0), Null, Null, Some(0), Some(0), Some(0), Null),
     RawState(Some(Icao), Null, Null, Null, Null, Null, Null, Null, Null, Null)}

\* the i-th state vector of a generated array: callsign "F<i>", every
\* seventh identifier null when holes is set
BulkState(i, holes) ==
    RawState(IF holes /\ i % 7 = 0 THEN Null ELSE Some(Icao),
             Some(<<"F">> \o IntToStr(i) \o <<" ">>), Some(Germany), Some(i),
             Null, Null, Some(4 * i), Some(i), Some(i - 1), Null)

BulkStates ==
    {[i \in 1..n |-> BulkState(i, holes)] : n \in 1..MaxBulk, holes \in BOOLEAN}

\* the `states` arrays the two pure functions are applied to
WideStates ==
    {<<s>> : s \in NullCombos \cup NumberCombos}
    \cup SeqUpTo(CoreStates, MaxStates)
    \cup BulkStates

WideResponses == {OkReply(s) : s \in WideStates}

---------------------------------------------------------------------------
(* The program: main, run_continuous and the calls they make *)

Init ==
    /\ argv \in Argvs
    /\ pc = "main"
    /\ exc = "none"
    /\ lookback = Defaults.lookback
    /\ continuous = Defaults.continuous
    /\ interval = Defaults.interval
    /\ save_data = Defaults.save_data
    /\ iteration = 0
    /\ response = Reply("none", 0, Body(FALSE, Null))
    /\ flights = << >>
    /\ out = << >>
    /\ requests = 0
    /\ files = << >>
    /\ interrupted = FALSE

\* the process ends with an uncaught exception e
Raise(e) == pc' = "crashed" /\ exc' = e

\* main up to the construction of the checker: the loop over the arguments,
\* then the choice between run_continuous and the single-shot branch
Main ==
    /\ pc = "main"
    /\ LET st == ParseArgs(argv, 1, Defaults)
       IN  /\ lookback' = st.lookback
           /\ continuous' = st.continuous
           /\ interval' = st.interval
           /\ save_data' = st.save_data
           /\ IF st.result = "help"
              THEN pc' = "exit" /\ exc' = exc /\ out' = Append(out, Line("usage", << >>))
              ELSE IF st.result = "ValueError"
              THEN Raise("ValueError") /\ out' = out
              ELSE /\ pc' = IF st.continuous THEN "loop" ELSE "fetch"
                   /\ exc' = exc
                   /\ out' = out
    /\ UNCHANGED <<argv, iteration, response, flights, requests, files, interrupted>>

\* run_continuous, top of the while loop: count the cycle, print its header
CycleHeader ==
    /\ pc = "loop"
    /\ iteration < MaxCycles
    /\ iteration' = iteration + 1
    /\ out' = out \o <<Line("cycle_rule", << >>),
                       Line("check", <<IntToStr(iteration + 1)>>),
                       Line("cycle_rule", << >>)>>
    /\ pc' = "fetch"
    /\ UNCHANGED <<argv, exc, lookback, continuous, interval, save_data, response,
                   flights, requests, files, interrupted>>

\* get_recent_flights up to session.get: the two informational lines, then
\* the one GET; the reply that will come back is fixed by the network
IssueRequest ==
    /\ pc = "fetch"
    /\ out' = out \o <<Line("fetching", <<IntToStr(lookback)>>),
                       Line("time_range", <<IntToStr(60 * lookback)>>)>>
    /\ requests' = requests + 1
    /\ response' \in Responses
    /\ pc' = "await"
    /\ UNCHANGED <<argv, exc, lookback, continuous, interval, save_data, iteration,
                   flights, files, interrupted>>

\* get_recent_flights from the return of session.get to its own return
ReceiveResponse ==
    /\ pc = "await"
    /\ IF ParseResponse(response).exc # "none"
       THEN Raise(ParseResponse(response).exc) /\ UNCHANGED <<flights, out>>
       ELSE /\ flights' = ParseResponse(response).flights
            /\ out' = IF ParseResponse(response).caught # "none"
                      THEN Append(out, Line("error", << >>))
                      ELSE out
            /\ pc' = "display"
            /\ exc' = exc
    /\ UNCHANGED <<argv, lookback, continuous, interval, save_data, iteration,
                   response, requests, files, interrupted>>

\* display_flights followed by save_data whenever --save was given, in
\* continuous mode too
DisplayFlights_ThenSave ==
    /\ pc = "display"
    /\ out' = out \o display_flights(flights)
    /\ pc' = IF save_data THEN "save" ELSE IF continuous THEN "notice" ELSE "exit"
    /\ UNCHANGED <<argv, exc, lookback, continuous, interval, save_data, iteration,
                   response, flights, requests, files, interrupted>>

\* display_flights(flights), called by run_continuous and by main
DisplayFlights ==
    /\ pc = "display"
    /\ out' = out \o display_flights(flights)
    /\ pc' = IF continuous THEN "notice" ELSE IF save_data THEN "save" ELSE "exit"
    /\ UNCHANGED <<argv, exc, lookback, continuous, interval, save_data, iteration,
                   response, flights, requests, files, interrupted>>

\* run_continuous: the "Next check" line, then time.sleep is entered
BeginSleep ==
    /\ pc = "notice"
    /\ out' = Append(out, Line("next_check", <<IntToStr(interval)>>))
    /\ pc' = "sleep"
    /\ UNCHANGED <<argv, exc, lookback, continuous, interval, save_data, iteration,
                   response, flights, requests, files, interrupted>>

\* time.sleep returns and the while loop starts over
WakeUp ==
    /\ pc = "sleep"
    /\ pc' = "loop"
    /\ UNCHANGED <<argv, exc, lookback, continuous, interval, save_data, iteration,
                   response, flights, out, requests, files, interrupted>>

\* json.dump(flights, f, indent=2): the file holds the list as a JSON array
JsonDump(fs) == [json_array |-> fs]

\* save_data(flights) with the default file name: open, dump, confirm; open
\* or the write may fail with OSError, which nothing catches
SaveData ==
    /\ pc = "save"
    /\ \E written \in BOOLEAN :
        /\ files' = Append(files, [written |-> written, data |-> JsonDump(flights)])
        /\ IF written
           THEN pc' = "exit" /\ exc' = exc /\ out' = Append(out, Line("saved", << >>))
           ELSE Raise("OSError") /\ out' = out
    /\ UNCHANGED <<argv, lookback, continuous, interval, save_data, iteration,
                   response, flights, requests, interrupted>>

\* what the step at pc may already have printed when it is interrupted
Partial(lines) == {SubSeq(lines, 1, k) : k \in 0..Len(lines)}

PartialOutput ==
    IF pc = "display" THEN Partial(display_flights(flights)) ELSE {<< >>}

\* Ctrl+C caught inside the while loop instead of around it: the stop
\* notice is printed and the loop goes on
InterruptLoop_Resumes ==
    /\ continuous
    /\ pc \in {"loop", "fetch", "await", "display", "notice", "sleep"}
    /\ interrupted' = TRUE
    /\ \E printed \in PartialOutput :
        out' = out \o printed \o <<Line("stopped", << >>)>>
    /\ pc' = "loop"
    /\ UNCHANGED <<argv, exc, lookback, continuous, interval, save_data, iteration,
                   response, flights, requests, files>>

\* Ctrl+C while run_continuous is inside its try block: the except clause
\* prints the stop notice, run_continuous and main return
InterruptLoop ==
    /\ continuous
    /\ pc \in {"loop", "fetch", "await", "display", "notice", "sleep"}
    /\ interrupted' = TRUE
    /\ \E printed \in PartialOutput :
        out' = out \o printed \o <<Line("stopped", << >>)>>
    /\ pc' = "stopped"
    /\ UNCHANGED <<argv, exc, lookback, continuous, interval, save_data, iteration,
                   response, flights, requests, files>>

\* Ctrl+C in the single-shot branch of main: nothing catches it
InterruptSingle ==
    /\ ~continuous
    /\ pc \in {"fetch", "await", "display", "save"}
    /\ interrupted' = TRUE
    /\ \E printed \in PartialOutput : out' = out \o printed
    /\ Raise("KeyboardInterrupt")
    /\ UNCHANGED <<argv, lookback, continuous, interval, save_data, iteration,
                   response, flights, requests, files>>

Next ==
    \/ Main
    \/ CycleHeader
    \/ IssueRequest
    \/ ReceiveResponse
    \/ DisplayFlights
    \/ BeginSleep
    \/ WakeUp
    \/ SaveData
    \/ InterruptLoop
    \/ InterruptSingle

Spec == Init /\ [][Next]_vars

---------------------------------------------------------------------------
(* The two pure functions on a wide range of replies: the single-shot      *)
(* program with no arguments, taken from the moment its GET is in flight   *)

InitWide ==
    /\ argv = << >>
    /\ pc = "await"
    /\ exc = "none"
    /\ lookback = Defaults.lookback
    /\ continuous = Defaults.continuous
    /\ interval = Defaults.interval
    /\ save_data = Defaults.save_data
    /\ iteration = 0
    /\ response \in WideResponses
    /\ flights = << >>
    /\ out = <<Line("fetching", <<IntToStr(Defaults.lookback)>>),
               Line("time_range", <<IntToStr(60 * Defaults.lookback)>>)>>
    /\ requests = 1
    /\ files = << >>
    /\ interrupted = FALSE

NextWide == ReceiveResponse \/ DisplayFlights

SpecWide == InitWide /\ [][NextWide]_vars

---------------------------------------------------------------------------
(* Vocabulary of the properties *)

Last(s) == s[Len(s)]

\* how many lines of a given message were printed
CountKind(lines, kind) == Cardinality({i \in DOMAIN lines : lines[i].kind = kind})

\* the detail rows printed so far
Rows == SelectSeq(out, LAMBDA l : l.kind = "row")

\* the reply is a transport failure: no reply at all, or a status outside 2xx
TransportFailure == response.error # "none" \/ response.status \notin 200..299

\* the reply is a 2xx reply whose body has a `states` array
HasStatesArray ==
    /\ ~TransportFailure
    /\ response.body.has_states
    /\ response.body.states # Null

RawStates == response.body.states[1]

\* the entries of `states` whose identifier is not null, in order
Identified == SelectSeq(RawStates, LAMBDA s : s[1] # Null)

\* get_recent_flights has dealt with the reply
Fetched == pc \notin {"main", "loop", "fetch", "await"}

\* display_flights has returned in the single-shot program
Displayed == pc \in {"save", "exit"} /\ CountKind(out, "usage") = 0

ZeroDegreesCell == <<"0", "°", " ", " ", " ", " ", " ", " ", " ", " ">>
NACell == <<"N", "/", "A", " ", " ", " ", " ", " ", " ", " ">>

---------------------------------------------------------------------------
(* Properties of get_recent_flights (under SpecWide) *)

\* C1: for every successful reply get_recent_flights returns exactly the
\* entries of `states` with a non-null identifier, in their order; the
\* result is never longer than `states` and no icao24 in it is null.
C1_ReturnsIdentified ==
    (HasStatesArray /\ pc # "await") =>
        /\ exc = "none"
        /\ Len(flights) = Len(Identified)
        /\ Len(flights) <= Len(RawStates)
        /\ \A i \in 1..Len(flights) :
            /\ flights[i].icao24 # Null
            /\ flights[i].icao24 = Identified[i][1]
            /\ flights[i].timestamp = FromTimestampIso(Identified[i][4][1])

\* C4: for every entry with a non-null identifier a record is built
\* whatever other fields are null: the fetch does not raise, and each null
\* field other than the callsign is null in the record.
C4_NullFieldsCarried ==
    (HasStatesArray /\ pc # "await") =>
        /\ exc = "none"
        /\ Len(flights) = Len(Identified)
        /\ \A i \in 1..Len(flights) :
            /\ (Identified[i][3] = Null) = (flights[i].country = Null)
            /\ (Identified[i][6] = Null) = (flights[i].latitude = Null)
            /\ (Identified[i][7] = Null) = (flights[i].longitude = Null)
            /\ (Identified[i][8] = Null) = (flights[i].altitude = Null)
            /\ (Identified[i][10] = Null) = (flights[i].velocity = Null)
            /\ (Identified[i][11] = Null) = (flights[i].heading = Null)
            /\ (Identified[i][12] = Null) = (flights[i].vertical_rate = Null)

\* the raw callsign is null, empty or made of white space only
Blank(raw) == raw = Null \/ \A k \in 1..Len(raw[1]) : IsSpace(raw[1][k])

\* C8: every record's callsign is the trimmed raw callsign when that is not
\* blank and "Unknown" when the raw callsign is null, empty or white space
\* only; no record has an empty callsign.
C8_CallsignNeverEmpty ==
    (HasStatesArray /\ Fetched /\ exc = "none") =>
        \A i \in 1..Len(flights) :
            /\ flights[i].callsign # << >>
            /\ Blank(Identified[i][2]) => flights[i].callsign = Unknown
            /\ ~Blank(Identified[i][2]) =>
                /\ ~IsSpace(Head(flights[i].callsign))
                /\ ~IsSpace(Last(flights[i].callsign))
                /\ \E a, b \in 0..Len(Identified[i][2][1]) :
                    /\ a + b <= Len(Identified[i][2][1])
                    /\ \A k \in 1..a : IsSpace(Identified[i][2][1][k])
                    /\ \A k \in 1..b : IsSpace(Identified[i][2][1][Len(Identified[i][2][1]) + 1 - k])
                    /\ flights[i].callsign
                         = SubSeq(Identified[i][2][1], a + 1, Len(Identified[i][2][1]) - b)

---------------------------------------------------------------------------
(* Properties of display_flights (under SpecWide) *)

\* C5: the altitude cell is integer metres followed by "m" for every record
\* whose altitude is present, 0 included, and "N/A" exactly when it is
\* absent; likewise the velocity cell is "N/A" exactly when velocity is
\* absent and one-decimal "m/s" otherwise.
C5_AltitudeVelocityCells ==
    Displayed =>
        \A i \in 1..Len(Rows) :
            /\ (Rows[i].arg[3] = NACell) = (flights[i].altitude = Null)
            /\ (Rows[i].arg[4] = NACell) = (flights[i].velocity = Null)
            /\ flights[i].altitude = Some(0) =>
                   Rows[i].arg[3] = <<"0", "m", " ", " ", " ", " ", " ", " ", " ", " ">>
            /\ flights[i].velocity = Some(0) =>
                   Rows[i].arg[4] = <<"0", ".", "0", "m", "/", "s", " ", " ", " ", " ">>

\* C6: a heading of 0 is rendered "0°", and the heading cell is "N/A" only
\* when the heading is absent.
C6_HeadingZero ==
    Displayed =>
        \A i \in 1..Len(Rows) :
            /\ flights[i].heading = Some(0) => Rows[i].arg[5] = ZeroDegreesCell
            /\ (Rows[i].arg[5] = NACell) = (flights[i].heading = Null)

C6_Witness ==
    /\ Displayed
    /\ \E i \in 1..Len(Rows) :
        /\ flights[i].heading = Some(0)
        /\ Rows[i].arg[5] = ZeroDegreesCell

\* what display_flights printed: the lines after the two lines of the fetch
DisplayLines == SubSeq(out, 3, Len(out))

\* C7: for n >= 1 records display_flights prints min(n, 50) detail rows, for
\* the first 50 records in order, the "... and n-50 more" line iff n > 50,
\* and ends with the total line reading n.
C7_RowsSummaryTotal ==
    (Displayed /\ flights # << >>) =>
        LET n == Len(flights)
            m == IF n <= 50 THEN n ELSE 50
        IN  /\ Len(Rows) = m
            /\ DisplayLines[1].kind = "header"
            /\ DisplayLines[2].kind = "rule"
            /\ \A i \in 1..m :
                /\ DisplayLines[2 + i].kind = "row"
                /\ \E pad \in 0..10 :
                    DisplayLines[2 + i].arg[1] = flights[i].callsign \o [k \in 1..pad |-> " "]
            /\ (CountKind(out, "more") = 1) = (n > 50)
            /\ CountKind(out, "more") <= 1
            /\ n > 50 => DisplayLines[3 + m] = Line("more", <<IntToStr(n - 50)>>)
            /\ Len(DisplayLines) = 2 + m + (IF n > 50 THEN 1 ELSE 0) + 1
            /\ Last(out) = Line("total", <<IntToStr(n)>>)

C7_Witness ==
    /\ Displayed
    /\ Len(flights) = 51
    /\ Len(Rows) = 50
    /\ out[Len(out) - 1] = Line("more", <<<<"1">>>>)
    /\ Last(out) = Line("total", <<<<"5", "1">>>>)

---------------------------------------------------------------------------
(* Properties of the whole program (under Spec) *)

CyclePoints == {"loop", "fetch", "await", "display", "notice", "sleep"}

\* C3: in continuous mode an interrupt can arrive at every point of a cycle
\* and moves the loop to the stopped state: the stop notice is printed
\* exactly once and last, the run ends without an exception, and nothing is
\* fetched or displayed afterwards.
C3_InterruptStops ==
    /\ []((continuous /\ pc \in CyclePoints) => ENABLED InterruptLoop)
    /\ []((continuous /\ interrupted) =>
            /\ pc = "stopped"
            /\ exc = "none"
            /\ CountKind(out, "stopped") = 1
            /\ Last(out).kind = "stopped")
    /\ [](~interrupted => CountKind(out, "stopped") = 0)
    /\ [][(continuous /\ interrupted') =>
            /\ requests' = requests
            /\ flights' = flights
            /\ iteration' = iteration
            /\ CountKind(out', "fetching") = CountKind(out, "fetching")]_vars
    /\ [][interrupted => UNCHANGED vars]_vars

C3_Witness ==
    /\ continuous
    /\ interrupted
    /\ pc = "stopped"
    /\ iteration = 2
    /\ Len(out) > 2
    /\ out[Len(out) - 1].kind = "row"

\* C9: in continuous mode a failed fetch is not fatal: the cycle goes on to
\* display the no-data notice, print the next-check notice and sleep, and
\* unless interrupted the next cycle starts with the counter one higher and
\* makes exactly one new request, whose result depends on its reply alone.
C9_FailureNotFatal ==
    /\ []((continuous /\ pc \in CyclePoints) =>
            requests = IF pc \in {"loop", "fetch"} /\ iteration > 0
                       THEN IF pc = "loop" THEN iteration ELSE iteration - 1
                       ELSE iteration)
    /\ [][(continuous /\ ~interrupted') =>
            /\ (pc = "await" /\ TransportFailure) =>
                /\ pc' = "display"
                /\ exc' = "none"
                /\ flights' = << >>
                /\ out' = Append(out, Line("error", << >>))
            /\ (pc = "display" /\ flights = << >>) =>
                /\ pc' = "notice"
                /\ out' = Append(out, Line("no_data", << >>))
            /\ pc = "notice" =>
                /\ pc' = "sleep"
                /\ Len(out') = Len(out) + 1
                /\ Last(out').kind = "next_check"
            /\ pc = "sleep" => (pc' = "loop" /\ iteration' = iteration /\ out' = out)
            /\ pc = "loop" => (pc' = "fetch" /\ iteration' = iteration + 1)
            /\ pc = "fetch" => (pc' = "await" /\ requests' = requests + 1)
            /\ (pc = "await" /\ HasStatesArray /\ exc' = "none") =>
                (pc' = "display" /\ Len(flights') = Len(Identified))]_vars

C9_Witness ==
    /\ continuous
    /\ iteration = 2
    /\ requests = 2
    /\ pc = "display"
    /\ flights # << >>
    /\ CountKind(out, "error") = 1
    /\ CountKind(out, "no_data") = 1
    /\ CountKind(out, "next_check") = 1

\* the single-shot fetch and display have both completed
FetchedAndDisplayed ==
    /\ CountKind(out, "time_range") = 1
    /\ CountKind(out, "no_data") + CountKind(out, "total") = 1

\* C10: save_data is called only in single-shot mode with --save, once, and
\* only after the fetch and the display of the run have completed (an empty
\* result included); in continuous mode it is never called.
C10_SaveOnlySingleShot ==
    /\ [](Len(files) <= 1)
    /\ [](files # << >> =>
            /\ ~continuous
            /\ save_data
            /\ \E i \in 1..Len(argv) : argv[i].opt = "--save"
            /\ FetchedAndDisplayed
            /\ files[1].data = JsonDump(flights))
    /\ [](continuous => files = << >>)
    /\ []((pc = "exit" /\ ~continuous /\ save_data /\ FetchedAndDisplayed) =>
            Len(files) = 1)
    /\ [][(pc = "display" /\ ~continuous /\ save_data /\ ~interrupted') =>
            pc' = "save"]_vars
    /\ [][(pc = "save" /\ ~interrupted') => Len(files') = 1]_vars

C10_Witness ==
    /\ pc = "exit"
    /\ save_data
    /\ ~continuous
    /\ flights = << >>
    /\ Len(files) = 1
    /\ files[1].written
    /\ Last(out).kind = "saved"

=============================================================================
